---- MODULE Spec2Model ----
(***************************************************************************)
(* kitty's CoreText font selection (kitty/fonts/core_text.py and the       *)
(* shared types of kitty/fonts/__init__.py) as a state machine.            *)
(*                                                                         *)
(* Strings are sequences of one-character strings, so that                 *)
(* family_name_to_key, str.lower and str.split are computed, not assumed.  *)
(* Weights and slants are CoreText's floats in [-1, 1] in exact tenths:    *)
(* 4 is 0.4, 20 is the reject penalty 2.0.  An Optional[T] is a set with   *)
(* no element (None) or one element.  A path is the rank of the file path  *)
(* in string order.                                                        *)
(***************************************************************************)
EXTENDS Integers, Sequences, FiniteSets, TLC

VARIABLES
    hostFonts,      \* what the host enumerates: coretext_all_fonts(False)
    fontMapCache,   \* lru_cache of all_fonts_map: monospaced -> FontMap
    wrCache,        \* lru_cache of weight_range_for_family: family -> WeightRange
    scorer,         \* the CTScorer object last used
    font,           \* the font handed to set_axis_values / set_named_style
    vd,             \* that font's VariableData
    call,           \* the operation last invoked, with its arguments
    result,         \* what it returned
    logged,         \* how many lines that operation wrote with log_error
    enumerated      \* monospaced -> how often all_fonts_map called coretext_all_fonts

vars == <<hostFonts, fontMapCache, wrCache, scorer, font, vd, call, result, logged,
          enumerated>>

----------------------------------------------------------------------------
(* Strings *)

Upper == <<"A","B","C","D","E","F","G","H","I","J","K","L","M",
           "N","O","P","Q","R","S","T","U","V","W","X","Y","Z">>
Lower == <<"a","b","c","d","e","f","g","h","i","j","k","l","m",
           "n","o","p","q","r","s","t","u","v","w","x","y","z">>

IsSpace(c) == c \in {" ", "\t", "\n"}

\* str.lower()
lower(s) ==
    [i \in 1..Len(s) |->
        IF \E k \in 1..Len(Upper) : Upper[k] = s[i]
        THEN Lower[CHOOSE k \in 1..Len(Upper) : Upper[k] = s[i]]
        ELSE s[i]]

\* str.lstrip() and str.strip()
RECURSIVE lstrip(_)
lstrip(s) ==
    IF s # <<>> /\ IsSpace(Head(s)) THEN lstrip(Tail(s)) ELSE s

RECURSIVE rstrip(_)
rstrip(s) ==
    IF s # <<>> /\ IsSpace(s[Len(s)]) THEN rstrip(SubSeq(s, 1, Len(s) - 1)) ELSE s

strip(s) == rstrip(lstrip(s))

\* fnname_pat().sub(' ', s): every run of whitespace becomes one space
RECURSIVE fnname_sub(_)
fnname_sub(s) ==
    IF s = <<>> THEN <<>>
    ELSE IF IsSpace(Head(s)) THEN <<" ">> \o fnname_sub(lstrip(s))
    ELSE <<Head(s)>> \o fnname_sub(Tail(s))

family_name_to_key(family) == lower(strip(fnname_sub(family)))

\* s.split()[0] of a string holding a non-space character
RECURSIVE first_token(_)
first_token(s) ==
    LET t == lstrip(s)
    IN  IF t = <<>> \/ IsSpace(Head(t)) THEN <<>>
        ELSE <<Head(t)>> \o (IF Len(t) > 1 /\ ~IsSpace(t[2]) THEN first_token(Tail(t)) ELSE <<>>)

\* f'{f} {s}'
full_key(f, s) == f \o <<" ">> \o s

----------------------------------------------------------------------------
(* sorted(): Python's sort is stable, so an element's place is the number  *)
(* of elements that come before it: the smaller ones, and the equal ones   *)
(* that stood before it.                                                   *)

sorted(s, Less(_, _)) ==
    LET rank(i) == Cardinality({j \in 1..Len(s) :
                        Less(s[j], s[i]) \/ (~Less(s[i], s[j]) /\ j < i)}) + 1
    IN  [k \in 1..Len(s) |-> s[CHOOSE i \in 1..Len(s) : rank(i) = k]]

\* itertools.groupby(v, itemgetter('path')): the runs of equal path
RECURSIVE groupby_path(_)
groupby_path(v) ==
    IF v = <<>> THEN <<>>
    ELSE LET n == CHOOSE k \in 1..Len(v) :
                    /\ \A i \in 1..k : v[i].path = v[1].path
                    /\ (k = Len(v) \/ v[k + 1].path # v[1].path)
         IN  <<SubSeq(v, 1, n)>> \o groupby_path(SubSeq(v, n + 1, Len(v)))

----------------------------------------------------------------------------
(* The host's fonts and the catalog built from them *)

None == {}
Some(x) == {x}
TheOne(o) == CHOOSE x \in o : TRUE

\* coretext_all_fonts(monospaced): every font, or the monospaced ones
coretext_all_fonts(monospaced) ==
    IF monospaced THEN SelectSeq(hostFonts, LAMBDA x : x.monospace) ELSE hostFonts

\* dict.setdefault(k, []).append(x)
setdefault_append(m, k, x) ==
    [q \in DOMAIN m \cup {k} |-> IF q = k
                                 THEN (IF k \in DOMAIN m THEN m[k] ELSE <<>>) \o <<x>>
                                 ELSE m[q]]

EmptyMap == [q \in {} |-> <<>>]

PathLess(a, b) == a.path < b.path
\* len(x['variation'] or ())
variation_len(x) == IF x.variation = None THEN 0 ELSE Cardinality(TheOne(x.variation))
VariationLess(a, b) == variation_len(a) < variation_len(b)

\* of every group the descriptor listed first, whatever its variation
first_listed(g) == [i \in 1..Len(g) |-> g[i][1]]

\* lines 46-48: of every group the descriptor with the fewest variation entries
least_varied(g) == [i \in 1..Len(g) |-> sorted(g[i], VariationLess)[1]]

\* lines 44-49: one descriptor per file
uniq_per_path(v) == least_varied(groupby_path(sorted(v, PathLess)))

RECURSIVE create_font_map_from(_, _, _)
create_font_map_from(all_fonts, ans, vmap) ==
    IF all_fonts = <<>>
    THEN [ans EXCEPT !.variable_map = [k \in DOMAIN vmap |-> uniq_per_path(vmap[k])]]
    ELSE LET x  == Head(all_fonts)
             f  == family_name_to_key(x.family)
             s  == family_name_to_key(x.style)
             ps == family_name_to_key(x.postscript_name)
         IN  create_font_map_from(
                Tail(all_fonts),
                [ans EXCEPT !.family_map = setdefault_append(@, f, x),
                            !.ps_map     = setdefault_append(@, ps, x),
                            !.full_map   = setdefault_append(@, full_key(f, s), x)],
                IF x.variation # None THEN setdefault_append(vmap, f, x) ELSE vmap)

create_font_map(all_fonts) ==
    create_font_map_from(all_fonts,
        [family_map |-> EmptyMap, ps_map |-> EmptyMap, full_map |-> EmptyMap,
         variable_map |-> EmptyMap],
        EmptyMap)

\* the catalog built anew at every request
all_fonts_map_uncached(cache, monospaced) ==
    create_font_map(coretext_all_fonts(monospaced))

\* all_fonts_map(monospaced) under lru_cache: the cached catalog, or a new one
all_fonts_map(cache, monospaced) ==
    IF monospaced \in DOMAIN cache THEN cache[monospaced]
    ELSE create_font_map(coretext_all_fonts(monospaced))

----------------------------------------------------------------------------
(* WeightRange and weight_range_for_family *)

\* wr = WeightRange(): the defaults are the "not set" sentinels
wr == [minimum |-> 99999, maximum |-> -99999, medium |-> -99999, bold |-> -99999]

WeightRange(mini, maxi, medium, bold) ==
    [minimum |-> mini, maximum |-> maxi, medium |-> medium, bold |-> bold]

is_valid(r) ==
    r.minimum # wr.minimum /\ r.maximum # wr.maximum /\ r.medium # wr.medium /\ r.bold # wr.bold

min(a, b) == IF a < b THEN a ELSE b
max(a, b) == IF a > b THEN a ELSE b

sSemibold == <<"s","e","m","i","b","o","l","d">>
sBold     == <<"b","o","l","d">>
sMedium   == <<"m","e","d","i","u","m">>
sRegular  == <<"r","e","g","u","l","a","r">>

\* a slip: the two bold labels trade places ('bold' always, 'semibold' if unset)
RECURSIVE weight_range_loop_swapped(_, _, _, _, _)
weight_range_loop_swapped(faces, mini, maxi, medium, bold) ==
    IF faces = <<>> THEN WeightRange(mini, maxi, medium, bold)
    ELSE weight_range_loop_swapped(Tail(faces),
            min(Head(faces).weight, mini), max(Head(faces).weight, maxi),
            IF first_token(lower(Head(faces).style)) = sMedium
               \/ (first_token(lower(Head(faces).style)) = sRegular /\ medium = wr.medium)
            THEN Head(faces).weight ELSE medium,
            IF first_token(lower(Head(faces).style)) = sBold
               \/ (first_token(lower(Head(faces).style)) = sSemibold /\ bold = wr.bold)
            THEN Head(faces).weight ELSE bold)

\* the loop of lines 101-115 (a style of whitespace alone makes s.split()[0]
\* raise IndexError; no catalog of the model holds one)
RECURSIVE weight_range_loop(_, _, _, _, _)
weight_range_loop(faces, mini, maxi, medium, bold) ==
    IF faces = <<>> THEN WeightRange(mini, maxi, medium, bold)
    ELSE LET face == Head(faces)
             w    == face.weight
             mi   == min(w, mini)
             ma   == max(w, maxi)
             s    == lower(face.style)
             t    == first_token(s)
         IN  IF s = <<>> THEN weight_range_loop(Tail(faces), mi, ma, medium, bold)
             ELSE IF t = sSemibold THEN weight_range_loop(Tail(faces), mi, ma, medium, w)
             ELSE IF t = sBold /\ bold = wr.bold THEN weight_range_loop(Tail(faces), mi, ma, medium, w)
             ELSE IF t = sMedium THEN weight_range_loop(Tail(faces), mi, ma, w, bold)
             ELSE IF t = sRegular /\ medium = wr.medium THEN weight_range_loop(Tail(faces), mi, ma, w, bold)
             ELSE weight_range_loop(Tail(faces), mi, ma, medium, bold)

\* dict.get(k, ()) on a catalog index
get_or_empty(m, k) == IF k \in DOMAIN m THEN m[k] ELSE <<>>

\* weight_range_for_family(family) under lru_cache
weight_range_for_family(cache, wc, family) ==
    IF family \in DOMAIN wc THEN wc[family]
    ELSE LET faces == get_or_empty(all_fonts_map(cache, TRUE).family_map,
                                   family_name_to_key(family))
         IN  weight_range_loop(faces, wr.minimum, wr.maximum, wr.medium, wr.bold)

----------------------------------------------------------------------------
(* CTScorer *)

abs(x) == IF x < 0 THEN 0 - x ELSE x

\* a slip: a face thinner than normal is not rejected
bold_score_no_reject(sc, candidate) ==
    IF sc.weight_range = None
    THEN IF sc.bold THEN abs(candidate.weight - 3) ELSE candidate.weight
    ELSE abs(candidate.weight - (IF sc.bold THEN TheOne(sc.weight_range).bold
                                 ELSE TheOne(sc.weight_range).medium))

\* a slip: the bold request is not anchored at 0.3
bold_score_unanchored(sc, candidate) ==
    IF sc.weight_range = None
    THEN IF candidate.weight < 0 THEN 20 ELSE candidate.weight
    ELSE abs(candidate.weight - (IF sc.bold THEN TheOne(sc.weight_range).bold
                                 ELSE TheOne(sc.weight_range).medium))

\* the bold component of lines 125-135
bold_score(sc, candidate) ==
    LET w == candidate.weight
    IN  IF sc.weight_range = None
        THEN IF w < 0 THEN 20
             ELSE IF sc.bold THEN abs(w - 3) ELSE w
        ELSE LET r      == TheOne(sc.weight_range)
                 anchor == IF sc.bold THEN r.bold ELSE r.medium
             IN  abs(w - anchor)

\* a slip: no italic component unless italic is requested
italic_score_zero(sc, candidate) ==
    IF sc.italic
    THEN IF candidate.slant < 0 THEN 20 ELSE abs(10 - candidate.slant)
    ELSE 0

\* the italic component of lines 136-141
italic_score(sc, candidate) ==
    LET sl == candidate.slant
    IN  IF sc.italic
        THEN IF sl < 0 THEN 20 ELSE abs(10 - sl)
        ELSE sl

\* CTScorer.score: Score(variable_score, style_score, monospace_score, width_score)
score(sc, candidate) ==
    [variable_score  |-> IF sc.prefer_variable /\ candidate.variation # None THEN 0 ELSE 1,
     style_score     |-> bold_score(sc, candidate) + italic_score(sc, candidate),
     monospace_score |-> IF candidate.monospace THEN 0 ELSE 1,
     width_score     |-> IF ~candidate.expanded /\ ~candidate.condensed THEN 0 ELSE 1]

\* tuple comparison of two Scores
ScoreLess(a, b) ==
    \/ a.variable_score < b.variable_score
    \/ /\ a.variable_score = b.variable_score
       /\ \/ a.style_score < b.style_score
          \/ /\ a.style_score = b.style_score
             /\ \/ a.monospace_score < b.monospace_score
                \/ /\ a.monospace_score = b.monospace_score
                   /\ a.width_score < b.width_score

families_of(candidates) == {candidates[i].family : i \in 1..Len(candidates)}

\* a slip: a family whose heaviest face is normal is not taken
usable_below(r) == IF is_valid(r) /\ r.minimum < 0 /\ r.maximum < 0 THEN Some(r) ELSE None

\* line 151: the range is taken only when valid and all at or below normal
usable(r) == IF is_valid(r) /\ r.minimum < 0 /\ r.maximum <= 0 THEN Some(r) ELSE None

\* lines 147-152: the weight range sorted_candidates selects for a batch
select_weight_range(cache, wc, candidates) ==
    IF Cardinality(families_of(candidates)) = 1
    THEN usable(weight_range_for_family(cache, wc, TheOne(families_of(candidates))))
    ELSE None

\* a slip: the range of the batch scored before is left in place
keep_weight_range(sc) == sc

\* line 147: self.weight_range = None
reset_weight_range(sc) == [sc EXCEPT !.weight_range = None]

\* the scorer as sorted_candidates leaves it: reset at line 147, given the
\* range at line 152 when one is selected
scorer_after(sc, cache, wc, candidates) ==
    IF select_weight_range(cache, wc, candidates) # None
    THEN [sc EXCEPT !.weight_range = select_weight_range(cache, wc, candidates)]
    ELSE reset_weight_range(sc)

\* CTScorer.sorted_candidates: sorted(candidates, key=self.score)
sorted_candidates(sc, cache, wc, candidates) ==
    LET s2    == scorer_after(sc, cache, wc, candidates)
        keyed == [i \in 1..Len(candidates) |->
                    [key |-> score(s2, candidates[i]), x |-> candidates[i]]]
        order == sorted(keyed, LAMBDA a, b : ScoreLess(a.key, b.key))
    IN  [i \in 1..Len(candidates) |-> order[i].x]

\* the scorer after it scored the batches in turn
RECURSIVE scorer_after_batches(_, _, _, _)
scorer_after_batches(sc, cache, wc, batches) ==
    IF batches = <<>> THEN sc
    ELSE scorer_after(scorer_after_batches(sc, cache, wc, SubSeq(batches, 1, Len(batches) - 1)),
                      cache, wc, batches[Len(batches)])

\* the families a call asked weight_range_for_family about: sorted_candidates
\* asks for the family of every batch that has exactly one
consulted(batches) ==
    UNION {IF Cardinality(families_of(batches[i])) = 1 THEN families_of(batches[i]) ELSE {} :
           i \in 1..Len(batches)}

\* the two caches after a call that asked all_fonts_map for the filters in
\* monos and scored the batches: an uncached weight_range_for_family asks
\* all_fonts_map(True)
wr_cache_after(cache, wc, batches) ==
    [f \in DOMAIN wc \cup consulted(batches) |-> weight_range_for_family(cache, wc, f)]

font_map_cache_after(cache, wc, monos, batches) ==
    LET touched == monos \cup (IF consulted(batches) \subseteq DOMAIN wc THEN {} ELSE {TRUE})
    IN  [m \in DOMAIN cache \cup touched |-> all_fonts_map(cache, m)]

\* line 55 runs, and the host is asked, once for every catalog that was not cached
enumerated_after(en, cache, cache_after) ==
    [m \in BOOLEAN |-> en[m] + (IF m \in DOMAIN cache_after \ DOMAIN cache THEN 1 ELSE 0)]

\* create_scorer
create_scorer(bold, italic, monospaced, prefer_variable) ==
    [bold |-> bold, italic |-> italic, monospaced |-> monospaced,
     prefer_variable |-> prefer_variable, weight_range |-> None]

----------------------------------------------------------------------------
(* The resolution pipeline.  A call returns [raised, value, batches, log]: *)
(* raised is "" or the exception's name, value the returned descriptor as  *)
(* an Optional, batches the candidate lists handed to sorted_candidates in *)
(* order, log the number of log_error lines.   Within one call a cached      *)
(* value and a newly computed one agree (the host's list does not change   *)
(* during a call), so values are computed from the caches as the call      *)
(* found them and the caches are brought up to date afterwards.            *)

menlo == <<"m","e","n","l","o">>
auto  == <<"a","u","t","o">>

Returned(x, batches, log) == [raised |-> "", value |-> Some(x), batches |-> batches, log |-> log]
Raised(e, batches, log)   == [raised |-> e, value |-> None, batches |-> batches, log |-> log]

\* a slip: the ignored face is not looked at
accept_any(possible, ignore_face) == Some(possible)

\* lines 187-189: the top candidate of an exact index, unless it is the ignored face
accept(possible, ignore_face) == IF possible \notin ignore_face THEN Some(possible) ELSE None

\* a slip: the loop ends at the first index that holds the key, whatever its top
exact_match_first(selectors, font_map, sc, cache, wc, q, ignore_face, acc) ==
    IF q \in DOMAIN font_map.ps_map
    THEN [found   |-> accept(sorted_candidates(sc, cache, wc, font_map.ps_map[q])[1],
                             ignore_face),
          batches |-> <<font_map.ps_map[q]>>]
    ELSE IF q \in DOMAIN font_map.full_map
    THEN [found   |-> accept(sorted_candidates(sc, cache, wc, font_map.full_map[q])[1],
                             ignore_face),
          batches |-> <<font_map.full_map[q]>>]
    ELSE acc

\* lines 183-189: the loop over the exact-match indices.  found is the face
\* returned at line 189, None when the loop falls through
RECURSIVE exact_match(_, _, _, _, _, _, _, _)
exact_match(selectors, font_map, sc, cache, wc, q, ignore_face, acc) ==
    IF selectors = <<>> \/ acc.found # None THEN acc
    ELSE IF q \in DOMAIN font_map[Head(selectors)] /\ font_map[Head(selectors)][q] # <<>>
    THEN exact_match(Tail(selectors), font_map, sc, cache, wc, q, ignore_face,
             [found   |-> accept(sorted_candidates(
                                     scorer_after_batches(sc, cache, wc, acc.batches),
                                     cache, wc, font_map[Head(selectors)][q])[1], ignore_face),
              batches |-> Append(acc.batches, font_map[Head(selectors)][q])])
    ELSE exact_match(Tail(selectors), font_map, sc, cache, wc, q, ignore_face, acc)

\* lines 193-197: the family-level match, falling back to Menlo; the scorer
\* is the one object that scored the batches of the loop
family_match(family_map, sc, cache, wc, q, batches) ==
    IF q \in DOMAIN family_map
    THEN Returned(sorted_candidates(scorer_after_batches(sc, cache, wc, batches),
                                    cache, wc, family_map[q])[1],
                  Append(batches, family_map[q]), 0)
    ELSE IF menlo \in DOMAIN family_map
    THEN Returned(sorted_candidates(scorer_after_batches(sc, cache, wc, batches),
                                    cache, wc, family_map[menlo])[1],
                  Append(batches, family_map[menlo]), 1)
    ELSE Raised("KeyError", batches, 1)

\* line 189 or lines 191-197, by what the loop found
match_after(exact, family_map, sc, cache, wc, q) ==
    IF exact.found # None
    THEN Returned(TheOne(exact.found), exact.batches, 0)
    ELSE family_match(family_map, sc, cache, wc, q, exact.batches)

\* lines 183-197 on the catalog font_map
match_in(font_map, sc, cache, wc, q, ignore_face) ==
    match_after(exact_match(<<"ps_map", "full_map">>, font_map, sc, cache, wc, q, ignore_face,
                            [found |-> None, batches |-> <<>>]),
                font_map.family_map, sc, cache, wc, q)

find_best_match(cache, wc, family, bold, italic, monospaced, ignore_face, prefer_variable) ==
    match_in(all_fonts_map(cache, monospaced),
             create_scorer(bold, italic, monospaced, prefer_variable),
             cache, wc, family_name_to_key(family), ignore_face)

\* line 170-171 on the index family_map
last_resort_in(family_map, sc, cache, wc) ==
    IF menlo \notin DOMAIN family_map
    THEN Raised("KeyError", <<>>, 0)
    ELSE Returned(sorted_candidates(sc, cache, wc, family_map[menlo])[1],
                  <<family_map[menlo]>>, 0)

\* find_last_resort_text_font
find_last_resort_text_font(cache, wc, bold, italic, monospaced) ==
    last_resort_in(all_fonts_map(cache, monospaced).family_map,
                   create_scorer(bold, italic, monospaced, FALSE), cache, wc)

\* FontSpec.is_system
is_system(spec) == spec.system # <<>>

\* the keyword always taken as the family, 'auto' too
get_font_from_spec_literal(cache, wc, spec, bold, italic, resolved_medium_font) ==
    IF ~is_system(spec) THEN Raised("NotImplementedError", <<>>, 0)
    ELSE find_best_match(cache, wc, spec.system, bold, italic, TRUE,
                         resolved_medium_font, FALSE)

\* get_font_from_spec; find_best_match's monospaced and prefer_variable are defaulted
get_font_from_spec(cache, wc, spec, bold, italic, resolved_medium_font) ==
    IF ~is_system(spec) THEN Raised("NotImplementedError", <<>>, 0)
    ELSE LET inherit == spec.system = auto /\ (bold \/ italic)
         IN  IF inherit /\ resolved_medium_font = None
             THEN Raised("AssertionError", <<>>, 0)
             ELSE find_best_match(cache, wc,
                      IF inherit THEN TheOne(resolved_medium_font).family ELSE spec.system,
                      bold, italic, TRUE, resolved_medium_font, FALSE)


\* get_font_files: the roles in the order of sorted(attr_map)
roles == <<[bold |-> FALSE, italic |-> FALSE, key |-> "medium", attr |-> "font_family"],
           [bold |-> FALSE, italic |-> TRUE,  key |-> "italic", attr |-> "italic_font"],
           [bold |-> TRUE,  italic |-> FALSE, key |-> "bold",   attr |-> "bold_font"],
           [bold |-> TRUE,  italic |-> TRUE,  key |-> "bi",     attr |-> "bold_italic_font"]>>

\* dict item assignment
setitem(d, k, v) == [j \in DOMAIN d \cup {k} |-> IF j = k THEN v ELSE d[j]]

\* what the call has scored and logged so far, with one more resolution
traced(trace, got) ==
    [batches |-> trace.batches \o got.batches, log |-> trace.log + got.log]

\* lines 217-226: the loop from role i on; the first exception ends the call
RECURSIVE get_font_files_from(_, _, _, _, _, _, _)
RECURSIVE put_role(_, _, _, _, _, _, _, _)
get_font_files_from(i, cache, wc, opts, medium_font, ans, trace) ==
    IF i > Len(roles)
    THEN [raised |-> "", value |-> Some(ans), batches |-> trace.batches, log |-> trace.log]
    ELSE IF ~(roles[i].bold \/ roles[i].italic)
    THEN get_font_files_from(i + 1, cache, wc, opts, medium_font,
                             setitem(ans, roles[i].key, TheOne(medium_font)), trace)
    ELSE put_role(i, cache, wc, opts, medium_font, ans, trace,
             get_font_from_spec(cache, wc, opts[roles[i].attr], roles[i].bold,
                                roles[i].italic, medium_font))

\* lines 221 and 224 with what get_font_from_spec gave
put_role(i, cache, wc, opts, medium_font, ans, trace, got) ==
    IF got.raised # ""
    THEN Raised(got.raised, trace.batches \o got.batches, trace.log + got.log)
    ELSE get_font_files_from(i + 1, cache, wc, opts, medium_font,
                             setitem(ans, roles[i].key, TheOne(got.value)), traced(trace, got))

\* lines 215-227 with the medium font of line 214
with_medium(cache, wc, opts, m) ==
    IF m.raised # "" THEN m
    ELSE get_font_files_from(1, cache, wc, opts, m.value, [k \in {} |-> 0],
                             [batches |-> m.batches, log |-> m.log])

get_font_files(cache, wc, opts) ==
    with_medium(cache, wc, opts,
        get_font_from_spec(cache, wc, opts.font_family, FALSE, FALSE, None))

----------------------------------------------------------------------------
(* The descriptors and requests the model is run on *)

Face(family, style, ps, weight, slant, monospace, variation, path) ==
    [family |-> family, style |-> style, postscript_name |-> ps, weight |-> weight,
     slant |-> slant, monospace |-> monospace, expanded |-> FALSE, condensed |-> FALSE,
     variation |-> variation, path |-> path]

nMenlo     == <<"M","e","n","l","o">>
nFira      == <<"F","i","r","a">>
nMenloBold == <<"M","e","n","l","o"," ","B","o","l","d">>
nMenloBoldSpaced == <<" ","m","e","n","l","o"," ","\t","B","O","L","D"," ">>
nNoSuch    == <<"N","o","S","u","c","h">>
stRegular  == <<"R","e","g","u","l","a","r">>
stBold     == <<"B","o","l","d">>
stLight    == <<"L","i","g","h","t">>
psMenloRegular == <<"M","e","n","l","o","-","R","e","g","u","l","a","r">>
psMenloBoldDash == <<"M","e","n","l","o","-","B","o","l","d">>
psFira     == <<"F","i","r","a","-","R","e","g","u","l","a","r">>

\* how long the host's font list may be
MaxHostFonts == 2

SeqsUpTo(S, n) == UNION {[1..k -> S] : k \in 0..n}

NoCall   == [op |-> "none"]
NoResult == [raised |-> "", value |-> None]
NoFont   == [has_axis_map |-> FALSE, axis_map |-> [t \in {} |-> 0]]
NoVd     == [axes |-> <<>>, named_styles |-> <<>>]

\* the state of a new process: nothing cached, nothing called
Fresh ==
    /\ fontMapCache = [m \in {} |-> 0]
    /\ wrCache = [f \in {} |-> 0]
    /\ scorer = create_scorer(FALSE, FALSE, TRUE, FALSE)
    /\ call = NoCall
    /\ result = NoResult
    /\ logged = 0
    /\ enumerated = [m \in BOOLEAN |-> 0]

----------------------------------------------------------------------------
(* Spec: the resolution pipeline over small catalogs *)

PipelineFaces ==
    { Face(nMenlo, stRegular, psMenloRegular, 0, 0, TRUE, None, 1),
      Face(nMenlo, stBold, psMenloBoldDash, 4, 0, TRUE, None, 2),
      Face(nMenlo, stRegular, nMenloBold, 0, 0, TRUE, None, 3),
      Face(nMenlo, stLight, psFira, -3, 0, FALSE, None, 4),
      Face(nFira, stRegular, nMenlo, 2, 0, TRUE, None, 5) }

PipelineFamilies == {nMenlo, nMenloBoldSpaced, nFira, nNoSuch}

Init ==
    /\ hostFonts \in SeqsUpTo(PipelineFaces, MaxHostFonts)
    /\ font = NoFont
    /\ vd = NoVd
    /\ Fresh

\* what every pipeline call does to the state
Finish(c, r, monos, sc) ==
    /\ call' = c
    /\ result' = [raised |-> r.raised, value |-> r.value]
    /\ logged' = r.log
    /\ fontMapCache' = font_map_cache_after(fontMapCache, wrCache, monos, r.batches)
    /\ enumerated' = enumerated_after(enumerated, fontMapCache, fontMapCache')
    /\ wrCache' = wr_cache_after(fontMapCache, wrCache, r.batches)
    /\ scorer' = scorer_after_batches(sc, fontMapCache, wrCache, r.batches)
    /\ UNCHANGED <<hostFonts, font, vd>>

FindBestMatch(family, bold, italic, monospaced, ignore_face, prefer_variable) ==
    Finish([op |-> "find_best_match", family |-> family, bold |-> bold, italic |-> italic,
            monospaced |-> monospaced, ignore_face |-> ignore_face,
            prefer_variable |-> prefer_variable],
           find_best_match(fontMapCache, wrCache, family, bold, italic, monospaced,
                           ignore_face, prefer_variable),
           {monospaced},
           create_scorer(bold, italic, monospaced, prefer_variable))

FindLastResortTextFont(bold, italic, monospaced) ==
    Finish([op |-> "find_last_resort_text_font", bold |-> bold, italic |-> italic,
            monospaced |-> monospaced],
           find_last_resort_text_font(fontMapCache, wrCache, bold, italic, monospaced),
           {monospaced},
           create_scorer(bold, italic, monospaced, FALSE))

FontSpec(system) == [system |-> system]

\* a system-keyword request reaches find_best_match, which asks all_fonts_map(True)
GetFontFiles(opts) ==
    Finish([op |-> "get_font_files", opts |-> opts],
           get_font_files(fontMapCache, wrCache, opts),
           IF is_system(opts.font_family) THEN {TRUE} ELSE {},
           create_scorer(TRUE, TRUE, TRUE, FALSE))

Faces == {hostFonts[i] : i \in 1..Len(hostFonts)}
Optional(S) == {None} \cup {Some(x) : x \in S}

\* a behaviour is one request to a new process
Idle == call = NoCall

Next ==
    \/ \E family \in PipelineFamilies, bold \in BOOLEAN, italic \in BOOLEAN,
          monospaced \in BOOLEAN, ignore_face \in Optional(Faces) :
            Idle /\ FindBestMatch(family, bold, italic, monospaced, ignore_face, FALSE)
    \/ \E bold \in BOOLEAN, italic \in BOOLEAN, monospaced \in BOOLEAN :
            Idle /\ FindLastResortTextFont(bold, italic, monospaced)
    \/ \E medium \in {auto, nMenlo, nFira, <<>>}, other \in {auto, nMenloBoldSpaced, <<>>} :
            Idle /\ GetFontFiles([font_family |-> FontSpec(medium), bold_font |-> FontSpec(other),
                          italic_font |-> FontSpec(auto), bold_italic_font |-> FontSpec(other)])

Spec == Init /\ [][Next]_vars

----------------------------------------------------------------------------
(* SpecFontSpec: one get_font_from_spec request to a new process *)

FontSpecs == {FontSpec(auto), FontSpec(nMenlo), FontSpec(nMenloBoldSpaced), FontSpec(<<>>)}

\* get_font_from_spec(spec, bold, italic, resolved_medium_font=...)
GetFontFromSpec(spec, bold, italic, resolved_medium_font) ==
    Finish([op |-> "get_font_from_spec", spec |-> spec, bold |-> bold, italic |-> italic,
            resolved_medium_font |-> resolved_medium_font],
           get_font_from_spec(fontMapCache, wrCache, spec, bold, italic,
                              resolved_medium_font),
           IF ~is_system(spec)
                \/ (spec.system = auto /\ (bold \/ italic) /\ resolved_medium_font = None)
           THEN {} ELSE {TRUE},
           create_scorer(bold, italic, TRUE, FALSE))

NextFontSpec ==
    \E spec \in FontSpecs, bold \in BOOLEAN, italic \in BOOLEAN,
       resolved_medium_font \in Optional(Faces) :
        Idle /\ GetFontFromSpec(spec, bold, italic, resolved_medium_font)

SpecFontSpec == Init /\ [][NextFontSpec]_vars

----------------------------------------------------------------------------
(* SpecWeight: weight_range_for_family over the faces of one family *)

stSemiboldItalic == <<"S","e","m","i","B","o","l","d"," ","I","t","a","l","i","c">>
stMedium   == <<"M","e","d","i","u","m">>
stBoldTab  == <<" ","B","O","L","D","\t","O","b","l","i","q","u","e">>
psAny      == <<"X">>

\* every face has a weight of its own, so the weight tells which face set an anchor
WeightFaces ==
    { Face(nMenlo, stRegular, psAny, 0, 0, TRUE, None, 1),
      Face(nMenlo, stRegular, psAny, -1, 0, TRUE, None, 1),
      Face(nMenlo, stMedium, psAny, 1, 0, TRUE, None, 1),
      Face(nMenlo, stSemiboldItalic, psAny, 3, 0, TRUE, None, 1),
      Face(nMenlo, sSemibold, psAny, -3, 0, TRUE, None, 1),
      Face(nMenlo, stBold, psAny, 4, 0, TRUE, None, 1),
      Face(nMenlo, stBoldTab, psAny, 5, 0, TRUE, None, 1),
      Face(nMenlo, <<>>, psAny, -4, 0, TRUE, None, 1),
      Face(nFira, stBold, psAny, 7, 0, TRUE, None, 1) }

\* how many faces the host lists in SpecWeight
MaxFamilyFaces == 3

InitWeight ==
    /\ hostFonts \in SeqsUpTo(WeightFaces, MaxFamilyFaces)
    /\ font = NoFont
    /\ vd = NoVd
    /\ Fresh

WeightRangeForFamily(family) ==
    /\ call' = [op |-> "weight_range_for_family", family |-> family]
    /\ result' = [raised |-> "",
                  value |-> Some(weight_range_for_family(fontMapCache, wrCache, family))]
    /\ logged' = 0
    /\ wrCache' = wr_cache_after(fontMapCache, wrCache, <<<<[family |-> family]>>>>)
    /\ fontMapCache' = font_map_cache_after(fontMapCache, wrCache, {},
                                            <<<<[family |-> family]>>>>)
    /\ enumerated' = enumerated_after(enumerated, fontMapCache, fontMapCache')
    /\ UNCHANGED <<hostFonts, scorer, font, vd>>

NextWeight ==
    \E family \in {nMenlo, nFira} : WeightRangeForFamily(family)

SpecWeight == InitWeight /\ [][NextWeight]_vars

----------------------------------------------------------------------------
(* SpecScore: a scorer is made and sorts batches of the host's faces *)

Wght == {<<"wght", 4>>}

ScoreFaces ==
    { Face(nMenlo, stRegular, psAny, -5, 0, TRUE, None, 1),
      Face(nMenlo, stBold, psAny, 0, 0, TRUE, None, 1),
      Face(nMenlo, stBold, psAny, 0, -10, TRUE, None, 1),
      Face(menlo, sSemibold, psAny, -2, 0, TRUE, Some(Wght), 1),
      [Face(nFira, stRegular, psAny, 3, 10, FALSE, None, 1) EXCEPT !.expanded = TRUE] }

\* how many faces the host lists in SpecScore
MaxScoreFaces == 2

InitScore ==
    /\ hostFonts \in SeqsUpTo(ScoreFaces, MaxScoreFaces)
    /\ font = NoFont
    /\ vd = NoVd
    /\ Fresh

\* create_scorer(...): a new scorer takes the place of the last one
CreateScorer(bold, italic, monospaced, prefer_variable) ==
    /\ scorer' = create_scorer(bold, italic, monospaced, prefer_variable)
    /\ call' = [op |-> "create_scorer"]
    /\ result' = NoResult
    /\ logged' = 0
    /\ UNCHANGED <<hostFonts, fontMapCache, wrCache, font, vd, enumerated>>

\* scorer.sorted_candidates(candidates)
SortedCandidates(candidates) ==
    /\ call' = [op |-> "sorted_candidates", self |-> scorer, candidates |-> candidates]
    /\ result' = [raised |-> "",
                  value |-> Some(sorted_candidates(scorer, fontMapCache, wrCache, candidates))]
    /\ scorer' = scorer_after(scorer, fontMapCache, wrCache, candidates)
    /\ logged' = 0
    /\ wrCache' = wr_cache_after(fontMapCache, wrCache, <<candidates>>)
    /\ fontMapCache' = font_map_cache_after(fontMapCache, wrCache, {}, <<candidates>>)
    /\ enumerated' = enumerated_after(enumerated, fontMapCache, fontMapCache')
    /\ UNCHANGED <<hostFonts, font, vd>>

\* the faces of the host's list at the places in idx, in the list's order
RECURSIVE Pick(_, _)
Pick(s, idx) ==
    IF s = <<>> THEN <<>>
    ELSE (IF Len(s) \in idx THEN Pick(SubSeq(s, 1, Len(s) - 1), idx) \o <<s[Len(s)]>>
          ELSE Pick(SubSeq(s, 1, Len(s) - 1), idx))

NextScore ==
    \/ \E bold \in BOOLEAN, italic \in BOOLEAN, prefer_variable \in BOOLEAN :
            CreateScorer(bold, italic, TRUE, prefer_variable)
    \/ \E idx \in SUBSET (1..Len(hostFonts)) :
            call.op # "none" /\ SortedCandidates(Pick(hostFonts, idx))

SpecScore == InitScore /\ [][NextScore]_vars

----------------------------------------------------------------------------
(* set_axis_values: a descriptor's axis map is merged with a request *)

NoAxes == [t \in {} |-> 0]

\* {ax['tag'] for ax in vd['axes']}
known_axes(v) == {v.axes[i].tag : i \in DOMAIN v.axes}

\* font.get('axis_map', {})
previous(f) == IF f.has_axis_map THEN f.axis_map ELSE NoAxes

\* the request's entries alone, what came before dropped
new_without_previous(tag_map, prev, known) ==
    [t \in known \cap DOMAIN tag_map |-> tag_map[t]]

\* lines 260-264: the copy of previous with new[tag] = val for every known
\* tag the request has a value for
new(tag_map, prev, known) ==
    [t \in DOMAIN prev \cup (known \cap DOMAIN tag_map) |->
        IF t \in known /\ t \in DOMAIN tag_map THEN tag_map[t] ELSE prev[t]]

\* the font after the call and the value returned
set_axis_values(tag_map, f, v) ==
    [font  |-> [has_axis_map |-> TRUE,
                axis_map |-> new(tag_map, previous(f), known_axes(v))],
     value |-> new(tag_map, previous(f), known_axes(v)) # previous(f)]

----------------------------------------------------------------------------
(* set_named_style: a named style of the font is looked up and applied *)

\* the first place at or after i whose style has the postscript name q
\* (case-folded), 0 when there is none: the loop of lines 271-273
RECURSIVE first_psname(_, _, _)
first_psname(named_styles, q, i) ==
    IF i > Len(named_styles) THEN 0
    ELSE IF lower(named_styles[i].psname) = q THEN i
    ELSE first_psname(named_styles, q, i + 1)

\* the same for the display name: the loop of lines 274-276
RECURSIVE first_name(_, _, _)
first_name(named_styles, q, i) ==
    IF i > Len(named_styles) THEN 0
    ELSE IF lower(named_styles[i].name) = q THEN i
    ELSE first_name(named_styles, q, i + 1)

\* the style a lookup found is applied, or nothing is done
apply_style(named_styles, i, f, v) ==
    IF i = 0 THEN [font |-> f, value |-> FALSE]
    ELSE set_axis_values(named_styles[i].axis_values, f, v)

\* the display names looked through before the postscript names
set_named_style_name_first(name, f, v) ==
    apply_style(v.named_styles,
        IF first_name(v.named_styles, lower(name), 1) # 0
        THEN first_name(v.named_styles, lower(name), 1)
        ELSE first_psname(v.named_styles, lower(name), 1),
        f, v)

\* set_named_style(name, font, vd): the font after the call and the value returned
set_named_style(name, f, v) ==
    apply_style(v.named_styles,
        IF first_psname(v.named_styles, lower(name), 1) # 0
        THEN first_psname(v.named_styles, lower(name), 1)
        ELSE first_name(v.named_styles, lower(name), 1),
        f, v)

----------------------------------------------------------------------------
(* SpecMap: the catalog of a host that lists variable fonts *)

vTwoA == {<<"wght", 4>>, <<"wdth", 1>>}
vTwoB == {<<"wght", 7>>, <<"slnt", 1>>}
vFive == {<<"wght", 4>>, <<"wdth", 1>>, <<"slnt", 1>>, <<"opsz", 1>>, <<"ital", 1>>}

MapFaces ==
    { Face(nMenlo, stRegular, psAny, 0, 0, TRUE, None, 1),
      Face(nMenlo, stRegular, psAny, 0, 0, TRUE, Some({}), 1),
      Face(nMenlo, stBold, psAny, 4, 0, TRUE, Some(vTwoA), 1),
      Face(nMenlo, stLight, psAny, -3, 0, TRUE, Some(vTwoB), 1),
      Face(nMenlo, stBold, psAny, 4, 0, TRUE, Some(vFive), 1),
      Face(menlo, stBold, psAny, 4, 0, TRUE, Some(vTwoA), 2),
      Face(nMenlo, stRegular, psAny, 0, 0, FALSE, Some(vFive), 2),
      Face(nFira, stRegular, psAny, 0, 0, TRUE, Some(vTwoB), 1) }

\* how many faces the host lists in SpecMap
MaxMapFonts == 3

InitMap ==
    /\ hostFonts \in SeqsUpTo(MapFaces, MaxMapFonts)
    /\ font = NoFont
    /\ vd = NoVd
    /\ Fresh

\* all_fonts_map(monospaced)
AllFontsMap(monospaced) ==
    /\ call' = [op |-> "all_fonts_map", monospaced |-> monospaced]
    /\ result' = [raised |-> "", value |-> Some(all_fonts_map(fontMapCache, monospaced))]
    /\ fontMapCache' = font_map_cache_after(fontMapCache, wrCache, {monospaced}, <<>>)
    /\ enumerated' = enumerated_after(enumerated, fontMapCache, fontMapCache')
    /\ logged' = 0
    /\ UNCHANGED <<hostFonts, wrCache, scorer, font, vd>>

NextMap == \E monospaced \in BOOLEAN : AllFontsMap(monospaced)

SpecMap == InitMap /\ [][NextMap]_vars

----------------------------------------------------------------------------
(* SpecCache: catalogs are requested while fonts come and go on the host; *)
(* nothing in the code clears the cache of all_fonts_map                  *)

CacheFaces ==
    { Face(nMenlo, stRegular, psAny, 0, 0, TRUE, None, 1),
      Face(nFira, stRegular, psAny, 0, 0, FALSE, None, 2) }

\* how many faces the host lists in SpecCache
MaxCacheFonts == 2

InitCache ==
    /\ hostFonts \in SeqsUpTo(CacheFaces, MaxCacheFonts)
    /\ font = NoFont
    /\ vd = NoVd
    /\ Fresh

\* a font is installed on the host or removed from it
HostFontsChange(fonts) ==
    /\ fonts # hostFonts
    /\ hostFonts' = fonts
    /\ call' = [op |-> "host_fonts_change"]
    /\ result' = NoResult
    /\ logged' = 0
    /\ UNCHANGED <<fontMapCache, wrCache, scorer, font, vd, enumerated>>

NextCache ==
    \/ \E monospaced \in BOOLEAN : AllFontsMap(monospaced)
    \/ \E fonts \in SeqsUpTo(CacheFaces, MaxCacheFonts) : HostFontsChange(fonts)

SpecCache == InitCache /\ [][NextCache]_vars

----------------------------------------------------------------------------
(* SpecAxis: requests for axis values on one descriptor of a variable font *)

Tags == {"wght", "wdth", "slnt"}
AxisTags == {"wght", "wdth"}
Axis(tag) == [tag |-> tag]

\* the largest axis value a request names
MaxAxisValue == 1
\* how many axes the font declares
MaxAxes == 2

TagMaps == UNION {[T -> 0..MaxAxisValue] : T \in SUBSET Tags}

InitAxis ==
    /\ hostFonts = <<>>
    /\ font = NoFont
    /\ vd \in {[axes |-> a, named_styles |-> <<>>] :
                a \in SeqsUpTo({Axis(t) : t \in AxisTags}, MaxAxes)}
    /\ Fresh

\* set_axis_values(tag_map, font, vd)
SetAxisValues(tag_map) ==
    /\ call' = [op |-> "set_axis_values", tag_map |-> tag_map]
    /\ font' = set_axis_values(tag_map, font, vd).font
    /\ result' = [raised |-> "", value |-> Some(set_axis_values(tag_map, font, vd).value)]
    /\ logged' = 0
    /\ UNCHANGED <<hostFonts, fontMapCache, wrCache, scorer, vd, enumerated>>

NextAxis == \E tag_map \in TagMaps : SetAxisValues(tag_map)

SpecAxis == InitAxis /\ [][NextAxis]_vars

----------------------------------------------------------------------------
(* SpecStyle: named styles are asked for on one descriptor of a variable font *)

snBold  == <<"b","o","l","d">>
snBOLD  == <<"B","O","L","D">>
snHeavy == <<"H","e","a","v","y">>
snThin  == <<"T","h","i","n">>

NamedStyle(name, psname, axis_values) ==
    [name |-> name, psname |-> psname, axis_values |-> axis_values]

NamedStyles ==
    { NamedStyle(stBold, psMenloRegular, [t \in {"wght"} |-> 1]),
      NamedStyle(snHeavy, snBOLD, [t \in {"wght", "wdth"} |-> 0]),
      NamedStyle(snBold, snThin, [t \in {"wdth"} |-> 1]),
      NamedStyle(stRegular, stBold, [t \in {"wght", "slnt"} |-> IF t = "wght" THEN 0 ELSE 1]),
      NamedStyle(snThin, psAny, [t \in {"slnt"} |-> 1]) }

\* how many named styles the font declares
MaxNamedStyles == 2

StyleNames == {snBold, stBold, snHeavy, snThin, nNoSuch}

InitStyle ==
    /\ hostFonts = <<>>
    /\ font = NoFont
    /\ vd \in {[axes |-> <<Axis("wght"), Axis("wdth")>>, named_styles |-> n] :
                n \in SeqsUpTo(NamedStyles, MaxNamedStyles)}
    /\ Fresh

\* set_named_style(name, font, vd)
SetNamedStyle(name) ==
    /\ call' = [op |-> "set_named_style", name |-> name]
    /\ font' = set_named_style(name, font, vd).font
    /\ result' = [raised |-> "", value |-> Some(set_named_style(name, font, vd).value)]
    /\ logged' = 0
    /\ UNCHANGED <<hostFonts, fontMapCache, wrCache, scorer, vd, enumerated>>

NextStyle == \E name \in StyleNames : SetNamedStyle(name)

SpecStyle == InitStyle /\ [][NextStyle]_vars

----------------------------------------------------------------------------
(* Claims about the pipeline.  After a call the catalog it read is cached, *)
(* so the claims restate the result from the cached catalog.               *)

IsCall(op) == call.op = op
Request == create_scorer(call.bold, call.italic, call.monospaced, call.prefer_variable)
Catalog == fontMapCache[call.monospaced]
Key == family_name_to_key(call.family)
\* the top-scored candidate of a batch, for the request of the call
Top(batch) == sorted_candidates(Request, fontMapCache, wrCache, batch)[1]
\* the top-scored candidate an index holds for the key: None when it holds none
TopIn(index) == IF Key \in DOMAIN index THEN Some(Top(index[Key])) ELSE None
\* an exact index offers a face when it holds the key and its top is not the ignored face
Offers(index) == TopIn(index) # None /\ TopIn(index) # call.ignore_face
\* the family-level lookup, with the fallback to the last-resort family
FamilyLevel ==
    IF Key \in DOMAIN Catalog.family_map THEN Some(Top(Catalog.family_map[Key]))
    ELSE IF menlo \in DOMAIN Catalog.family_map THEN Some(Top(Catalog.family_map[menlo]))
    ELSE None

\* C2 as stated: the first exact index that holds the key decides: its top
\* candidate is returned unless it is exclude, and then the family-level top
\* candidate is; when neither index holds the key the result is the top
\* candidate of by_family[key] (stated for keys that are a family)
C2_FirstIndexDecides ==
    IsCall("find_best_match") =>
        IF TopIn(Catalog.ps_map) # None
        THEN result.value = (IF Offers(Catalog.ps_map) THEN TopIn(Catalog.ps_map)
                             ELSE FamilyLevel)
        ELSE IF TopIn(Catalog.full_map) # None
        THEN result.value = (IF Offers(Catalog.full_map) THEN TopIn(Catalog.full_map)
                             ELSE FamilyLevel)
        ELSE (Key \in DOMAIN Catalog.family_map =>
                result.value = Some(Top(Catalog.family_map[Key])))

\* C2 amended: the postscript-name index is asked first and the full-name
\* index second; the result is the top candidate of the first of them that
\* holds the key with a top candidate other than exclude.  When neither does,
\* the result is the top candidate of by_family[key], or of by_family['menlo']
\* when the key is no family, and a KeyError when that is none either.
C2_LookupOrder ==
    IsCall("find_best_match") =>
        /\ result.value =
            IF Offers(Catalog.ps_map) THEN TopIn(Catalog.ps_map)
            ELSE IF Offers(Catalog.full_map) THEN TopIn(Catalog.full_map)
            ELSE FamilyLevel
        /\ result.raised = IF result.value = None THEN "KeyError" ELSE ""

\* C2 witness: the postscript index held the key with the excluded face on
\* top, and the full-name index gave the result
C2_Witness ==
    /\ IsCall("find_best_match")
    /\ TopIn(Catalog.ps_map) # None
    /\ ~Offers(Catalog.ps_map)
    /\ Offers(Catalog.full_map)
    /\ result.value = TopIn(Catalog.full_map)
    /\ result.value # FamilyLevel

\* C3 as stated: a family whose key is in none of the three indices never
\* raises; one diagnostic is written and the result is the top-scored
\* candidate of family 'menlo' in the catalog of the requested filter
C3_UnknownFamilyFallsBack ==
    (/\ IsCall("find_best_match")
     /\ Key \notin DOMAIN Catalog.ps_map
     /\ Key \notin DOMAIN Catalog.full_map
     /\ Key \notin DOMAIN Catalog.family_map) =>
        /\ result.raised = ""
        /\ logged = 1
        /\ menlo \in DOMAIN Catalog.family_map
        /\ result.value = Some(Top(Catalog.family_map[menlo]))

\* the faces get_font_files resolved, and what one role asked for
Resolved == TheOne(result.value)
RoleKey(r) ==
    family_name_to_key(IF call.opts[r.attr].system = auto THEN Resolved["medium"].family
                       ELSE call.opts[r.attr].system)
RoleTop(r, index) ==
    IF RoleKey(r) \in DOMAIN index
    THEN Some(sorted_candidates(create_scorer(r.bold, r.italic, TRUE, FALSE),
                                fontMapCache, wrCache, index[RoleKey(r)])[1])
    ELSE None
OtherRoles == {roles[i] : i \in 2..Len(roles)}

\* C1 as stated: the bold, italic and bold-italic faces are never the medium face
C1_NeverMedium ==
    (IsCall("get_font_files") /\ result.raised = "") =>
        \A r \in OtherRoles : Resolved[r.key] # Resolved["medium"]

\* C1 amended: the medium face is the exclude of the three other
\* resolutions, and exclude rules out only exact matches: whenever the
\* postscript-name or the full-name index holds a role's key with a top
\* candidate other than the medium face, that role's face is not the medium
\* face.  The family-level lookup may return the medium face.
C1_ExactMatchNeverMedium ==
    (IsCall("get_font_files") /\ result.raised = "") =>
        \A r \in OtherRoles :
            (\E sel \in {"ps_map", "full_map"} :
                RoleTop(r, fontMapCache[TRUE][sel]) \notin {None, Some(Resolved["medium"])})
            => Resolved[r.key] # Resolved["medium"]

\* C1 witness: an exact index held a role's key with the medium face on top,
\* and the role was resolved to another face
C1_Witness ==
    /\ IsCall("get_font_files")
    /\ result.raised = ""
    /\ \E r \in OtherRoles :
        /\ RoleTop(r, fontMapCache[TRUE].ps_map) = Some(Resolved["medium"])
        /\ Resolved[r.key] # Resolved["medium"]

\* the batch of the family-level lookup, and whether the result came from it
FamilyBatch ==
    IF Key \in DOMAIN Catalog.family_map THEN Catalog.family_map[Key]
    ELSE Catalog.family_map[menlo]
FromFamily ==
    ~Offers(Catalog.ps_map) /\ ~Offers(Catalog.full_map) /\ result.value # None
\* two candidates tie on every score component but the bold one
TieButWeight(a, b) ==
    /\ score(Request, a).variable_score = score(Request, b).variable_score
    /\ italic_score(Request, a) = italic_score(Request, b)
    /\ score(Request, a).monospace_score = score(Request, b).monospace_score
    /\ score(Request, a).width_score = score(Request, b).width_score
MenloNormal == Face(nMenlo, stRegular, psMenloRegular, 0, 0, TRUE, None, 1)
MenloHeavy  == Face(nMenlo, stBold, psMenloBoldDash, 4, 0, TRUE, None, 2)

\* C7: a bold request scored without a weight range returns, of the
\* family's candidates of weight >= 0 that tie on the other components, one
\* whose weight is nearest to 0.3; from Menlo with weights 0 and 0.4 a bold
\* request returns the 0.4 face and a non-bold request the 0 face
C7_BoldNearestSemibold ==
    IsCall("find_best_match") =>
        /\ (call.bold /\ FromFamily /\ scorer.weight_range = None) =>
            \A i \in 1..Len(FamilyBatch) :
                (/\ FamilyBatch[i].weight >= 0
                 /\ TheOne(result.value).weight >= 0
                 /\ TieButWeight(FamilyBatch[i], TheOne(result.value)))
                => abs(TheOne(result.value).weight - 3) <= abs(FamilyBatch[i].weight - 3)
        /\ (/\ hostFonts \in {<<MenloNormal, MenloHeavy>>, <<MenloHeavy, MenloNormal>>}
            /\ Key = menlo) =>
            result.value = Some(IF call.bold THEN MenloHeavy ELSE MenloNormal)

\* C7 witness: the bold request on Menlo with the 0 face listed first
C7_Witness ==
    /\ IsCall("find_best_match")
    /\ hostFonts = <<MenloNormal, MenloHeavy>>
    /\ Key = menlo
    /\ call.bold
    /\ scorer.weight_range = None
    /\ result.value = Some(MenloHeavy)

----------------------------------------------------------------------------
(* Claims about weight_range_for_family *)

\* the faces the range is computed over, and the label of a face
RangeFaces == get_or_empty(fontMapCache[TRUE].family_map, family_name_to_key(call.family))
Label(face) == first_token(lower(face.style))
Labelled(l) == {i \in 1..Len(RangeFaces) : Label(RangeFaces[i]) = l}
First(S) == CHOOSE i \in S : \A j \in S : i <= j
Last(S)  == CHOOSE i \in S : \A j \in S : j <= i
Range == TheOne(result.value)

\* C4, as stated: a family with a Bold and a Semibold face gets the weight
\* of a Bold face as its bold anchor, whichever is enumerated first
C4_BoldFaceWins ==
    (IsCall("weight_range_for_family") /\ Labelled(sBold) # {} /\ Labelled(sSemibold) # {})
        => Range.bold \in {RangeFaces[i].weight : i \in Labelled(sBold)}

\* C4 amended: over the family's faces in catalog order, by the first token
\* of the lower-cased style: 'semibold' sets bold unconditionally, 'bold'
\* sets bold only if bold is not set yet, 'medium' sets medium
\* unconditionally, 'regular' sets medium only if it is not set yet.  So bold
\* is the weight of the last Semibold face if the family has one, else of the
\* first Bold face; medium that of the last Medium face if there is one, else
\* of the first Regular face; a family with a Bold and a Semibold face gets
\* the Semibold face's weight as bold anchor whichever comes first.
C4_SemiboldFaceWins ==
    IsCall("weight_range_for_family") =>
        /\ Range.bold =
            IF Labelled(sSemibold) # {} THEN RangeFaces[Last(Labelled(sSemibold))].weight
            ELSE IF Labelled(sBold) # {} THEN RangeFaces[First(Labelled(sBold))].weight
            ELSE wr.bold
        /\ Range.medium =
            IF Labelled(sMedium) # {} THEN RangeFaces[Last(Labelled(sMedium))].weight
            ELSE IF Labelled(sRegular) # {} THEN RangeFaces[First(Labelled(sRegular))].weight
            ELSE wr.medium
        /\ \A i \in 1..Len(RangeFaces) :
            Range.minimum <= RangeFaces[i].weight /\ RangeFaces[i].weight <= Range.maximum

\* C4 witness: a Bold face enumerated before a Semibold face, and the
\* Semibold face's weight is the anchor
C4_Witness ==
    /\ IsCall("weight_range_for_family")
    /\ Labelled(sBold) # {}
    /\ Labelled(sSemibold) # {}
    /\ First(Labelled(sBold)) < First(Labelled(sSemibold))
    /\ Range.bold = RangeFaces[Last(Labelled(sSemibold))].weight
    /\ Range.bold \notin {RangeFaces[i].weight : i \in Labelled(sBold)}

----------------------------------------------------------------------------
(* Claims about CTScorer *)

Sorted == TheOne(result.value)
Thin(c) == c.weight < 0
\* the italic component, as what score adds to the bold component
ItalicPart(c) == score(scorer, c).style_score - bold_score(scorer, c)

\* C5, as stated: with no weight range in effect every candidate of
\* weight < 0 is ranked after every candidate of weight >= 0
C5_ThinAlwaysLast ==
    (IsCall("sorted_candidates") /\ scorer.weight_range = None) =>
        \A i, j \in 1..Len(Sorted) :
            (Thin(Sorted[i]) /\ ~Thin(Sorted[j])) => j < i

\* C5 amended: with no weight range in effect a candidate of weight < 0 is
\* ranked after every candidate of weight >= 0 that has the same
\* variable-preference penalty and the same slant, for every request and
\* whatever the monospace and width fields are
C5_ThinLastAmongAlike ==
    (IsCall("sorted_candidates") /\ scorer.weight_range = None) =>
        \A i, j \in 1..Len(Sorted) :
            (/\ Thin(Sorted[i]) /\ ~Thin(Sorted[j])
             /\ Sorted[i].slant = Sorted[j].slant
             /\ (scorer.prefer_variable =>
                    ((Sorted[i].variation = None) <=> (Sorted[j].variation = None))))
            => j < i

\* C5 witness: a thin face enumerated first is ranked after a normal one
C5_Witness ==
    /\ IsCall("sorted_candidates")
    /\ scorer.weight_range = None
    /\ Len(Sorted) = 2
    /\ Thin(call.candidates[1]) /\ ~Thin(call.candidates[2])
    /\ call.candidates[1].slant = call.candidates[2].slant
    /\ Sorted[1] = call.candidates[2]

\* C6, as stated: the italic component is 2.0 or |1 - slant| when italic is
\* requested and 0 when it is not, so that the style distance is never
\* negative
C6_NoItalicPartUnlessAsked ==
    IsCall("sorted_candidates") =>
        \A i \in 1..Len(Sorted) :
            /\ ItalicPart(Sorted[i]) =
                IF scorer.italic
                THEN (IF Sorted[i].slant < 0 THEN 20 ELSE abs(10 - Sorted[i].slant))
                ELSE 0
            /\ score(scorer, Sorted[i]).style_score >= 0

\* C6 amended: the italic component is 2.0 when italic is requested and
\* slant < 0, |1 - slant| when italic is requested and slant >= 0, and the
\* slant itself when italic is not requested; so for a non-italic request
\* two candidates that differ only in slant are ranked by slant, the smaller
\* first, and the style distance can be negative but not below -1.0
C6_SlantIsThePart ==
    IsCall("sorted_candidates") =>
        /\ \A i \in 1..Len(Sorted) :
            /\ ItalicPart(Sorted[i]) =
                IF scorer.italic
                THEN (IF Sorted[i].slant < 0 THEN 20 ELSE abs(10 - Sorted[i].slant))
                ELSE Sorted[i].slant
            /\ score(scorer, Sorted[i]).style_score >= -10
        /\ ~scorer.italic =>
            \A i, j \in 1..Len(Sorted) :
                (/\ [Sorted[i] EXCEPT !.slant = 0] = [Sorted[j] EXCEPT !.slant = 0]
                 /\ Sorted[i].slant < Sorted[j].slant)
                => i < j

\* C6 witness: a non-italic request put a back-slanted face, enumerated
\* second, before its upright twin, with a negative style distance
C6_Witness ==
    /\ IsCall("sorted_candidates")
    /\ ~scorer.italic
    /\ Len(Sorted) = 2
    /\ [Sorted[1] EXCEPT !.slant = 0] = [Sorted[2] EXCEPT !.slant = 0]
    /\ Sorted[1] = call.candidates[2]
    /\ Sorted[1].slant < Sorted[2].slant
    /\ score(scorer, Sorted[1]).style_score < 0

\* the one family of the batch and its cached range; asked only of a batch of one family
BatchFamily == TheOne(families_of(call.candidates))
BatchRange  == wrCache[BatchFamily]
\* the faces of that family in the monospaced catalog
BatchFamilyFaces ==
    get_or_empty(fontMapCache[TRUE].family_map, family_name_to_key(BatchFamily))

\* C8: a batch is scored with a weight range iff its candidates share one
\* family whose range has no field at its sentinel, minimum < 0 and
\* maximum <= 0; the range is that family's, computed over its faces; every
\* candidate of the batch is ranked by the score under that one decision,
\* whose bold component under a range is |weight - bold| for a bold request
\* and |weight - medium| otherwise
C8_RangeIffOneInvertedFamily ==
    IsCall("sorted_candidates") =>
        /\ (scorer.weight_range # None) <=>
            /\ Cardinality(families_of(call.candidates)) = 1
            /\ BatchRange.minimum # 99999 /\ BatchRange.maximum # -99999
            /\ BatchRange.medium # -99999 /\ BatchRange.bold # -99999
            /\ BatchRange.minimum < 0 /\ BatchRange.maximum <= 0
        /\ scorer.weight_range # None =>
            /\ scorer.weight_range = Some(BatchRange)
            /\ \A k \in 1..Len(BatchFamilyFaces) :
                /\ BatchRange.minimum <= BatchFamilyFaces[k].weight
                /\ BatchFamilyFaces[k].weight <= BatchRange.maximum
            /\ \A i \in 1..Len(Sorted) :
                bold_score(scorer, Sorted[i]) =
                    abs(Sorted[i].weight - (IF scorer.bold THEN BatchRange.bold
                                            ELSE BatchRange.medium))
        /\ \A i, j \in 1..Len(Sorted) :
            i < j => ~ScoreLess(score(scorer, Sorted[j]), score(scorer, Sorted[i]))

\* C8 witness: a bold request on a two-face family whose heaviest face is
\* normal, ranked by distance from the family's bold anchor
C8_Witness ==
    /\ IsCall("sorted_candidates")
    /\ scorer.bold
    /\ scorer.weight_range # None
    /\ TheOne(scorer.weight_range).maximum = 0
    /\ Len(Sorted) = 2
    /\ Sorted[1] = call.candidates[2]
    /\ abs(Sorted[1].weight - TheOne(scorer.weight_range).bold)
         < abs(Sorted[2].weight - TheOne(scorer.weight_range).bold)

\* a scorer newly made for the request of the scorer that was called
NewScorer ==
    create_scorer(call.self.bold, call.self.italic, call.self.monospaced,
                  call.self.prefer_variable)
Stale == TheOne(call.self.weight_range)

\* C14: a scorer used again decides its weight range afresh: the range it
\* is left with and the order it returns are those a new scorer of the
\* same request gives for the batch, whatever range it had selected for
\* the batch it scored before
C14_RangeDecidedPerBatch ==
    IsCall("sorted_candidates") =>
        /\ scorer.weight_range =
            scorer_after(NewScorer, fontMapCache, wrCache, call.candidates).weight_range
        /\ Sorted = sorted_candidates(NewScorer, fontMapCache, wrCache, call.candidates)
        /\ (Cardinality(families_of(call.candidates)) # 1 => scorer.weight_range = None)

\* C14 witness: a bold scorer that had selected a range for the batch
\* before scores a batch of two families; no range is in effect and the
\* two thin faces stay in the order given, where the earlier range would
\* have put the second one first
C14_Witness ==
    /\ IsCall("sorted_candidates")
    /\ scorer.bold
    /\ call.self.weight_range # None
    /\ Cardinality(families_of(call.candidates)) = 2
    /\ scorer.weight_range = None
    /\ Len(Sorted) = 2
    /\ Sorted = call.candidates
    /\ abs(Sorted[2].weight - Stale.bold) < abs(Sorted[1].weight - Stale.bold)

----------------------------------------------------------------------------
(* Claims about create_font_map *)

\* the faces the catalog of the call was built from, and the catalog
Listed == coretext_all_fonts(call.monospaced)
Built == TheOne(result.value)
\* where the family with key k lists a face carrying variation data, in file p
Variable(k) ==
    {i \in 1..Len(Listed) :
        family_name_to_key(Listed[i].family) = k /\ Listed[i].variation # None}
InFile(k, p) == {i \in Variable(k) : Listed[i].path = p}
Size(i) == Cardinality(TheOne(Listed[i].variation))
\* the first listed of the faces of file p with the fewest variation entries
Default(k, p) ==
    CHOOSE i \in InFile(k, p) :
        \A j \in InFile(k, p) : Size(i) < Size(j) \/ (Size(i) = Size(j) /\ i <= j)

\* C9: the variable index holds, for every family key, exactly one
\* descriptor per file among the family's descriptors carrying variation
\* data, the one with the fewest variation entries and of these the first
\* listed; a descriptor without variation data is in no entry of the index
C9_OneDefaultPerFile ==
    IsCall("all_fonts_map") =>
        /\ DOMAIN Built.variable_map =
            {family_name_to_key(Listed[i].family) :
                i \in {j \in 1..Len(Listed) : Listed[j].variation # None}}
        /\ \A k \in DOMAIN Built.variable_map :
            LET v == Built.variable_map[k]
                paths == {Listed[i].path : i \in Variable(k)}
            IN  /\ Len(v) = Cardinality(paths)
                /\ \A p \in paths :
                    \E n \in 1..Len(v) : v[n] = Listed[Default(k, p)] /\ v[n].path = p
                /\ \A n \in 1..Len(v) : v[n].variation # None

\* C9 witness: one file listed with 2, then 0, then 5 variation entries and
\* the index keeps exactly the one with none
C9_Witness ==
    /\ IsCall("all_fonts_map")
    /\ Len(Listed) = 3
    /\ \A i \in 1..3 : Listed[i].variation # None /\ Listed[i].path = Listed[1].path
    /\ Size(1) = 2 /\ Size(2) = 0 /\ Size(3) = 5
    /\ DOMAIN Built.variable_map = {menlo}
    /\ Built.variable_map[menlo] = <<Listed[2]>>

----------------------------------------------------------------------------
(* Claims about set_axis_values *)

\* the axis map of a font, empty when it has none yet
AxisMap(f) == IF f.has_axis_map THEN f.axis_map ELSE NoAxes
Declared == {vd.axes[i].tag : i \in DOMAIN vd.axes}

\* C10: set_axis_values makes the axis map the previous one overridden by
\* exactly the request's entries for tags the font declares, keeps the
\* values of the other tags, ignores tags the font does not declare, and
\* returns true iff the new map differs from the previous one
C10_MergesKnownTags ==
    [][call'.op = "set_axis_values" =>
        LET asked == DOMAIN call'.tag_map \cap Declared
        IN  /\ font'.has_axis_map
            /\ DOMAIN font'.axis_map = DOMAIN AxisMap(font) \cup asked
            /\ \A t \in asked : font'.axis_map[t] = call'.tag_map[t]
            /\ \A t \in DOMAIN AxisMap(font) \ asked : font'.axis_map[t] = AxisMap(font)[t]
            /\ result'.value = Some(font'.axis_map # AxisMap(font))
            /\ (asked = {} => (result'.value = Some(FALSE) /\ font'.axis_map = AxisMap(font)))
            /\ vd' = vd]_vars

\* C10 witness: a request naming only tags the font does not declare
\* returned false and the values set before are still there
C10_Witness ==
    /\ IsCall("set_axis_values")
    /\ DOMAIN call.tag_map # {}
    /\ DOMAIN call.tag_map \cap Declared = {}
    /\ result.value = Some(FALSE)
    /\ DOMAIN font.axis_map # {}

----------------------------------------------------------------------------
(* Claims about set_named_style *)

Styles == vd.named_styles
\* where a style has the asked name as its postscript name, as its display name
ByPsname(name) == {i \in 1..Len(Styles) : lower(Styles[i].psname) = lower(name)}
ByName(name)   == {i \in 1..Len(Styles) : lower(Styles[i].name) = lower(name)}
\* the style the claim says is applied, asked only when one matches
Matched(name) ==
    IF ByPsname(name) # {} THEN First(ByPsname(name)) ELSE First(ByName(name))

\* C11: set_named_style compares the name, case-folded, first with the
\* postscript name of every named style in declaration order, then with
\* the display name of every named style in declaration order; the first
\* match's axis values are applied through set_axis_values and its result
\* returned; with no match the result is false and the font is as it was
C11_PsnameBeforeName ==
    [][call'.op = "set_named_style" =>
        IF ByPsname(call'.name) = {} /\ ByName(call'.name) = {}
        THEN result'.value = Some(FALSE) /\ font' = font
        ELSE /\ font' = set_axis_values(Styles[Matched(call'.name)].axis_values, font, vd).font
             /\ result'.value =
                    Some(set_axis_values(Styles[Matched(call'.name)].axis_values, font, vd).value)
             /\ result'.value = Some(font'.axis_map # AxisMap(font))]_vars

\* C11 witness: the first style has the asked name as display name, the
\* second, with other axis values and other spelling, as postscript name,
\* and the second one's values are in the axis map
C11_Witness ==
    /\ IsCall("set_named_style")
    /\ Len(Styles) = 2
    /\ 1 \in ByName(call.name) /\ 1 \notin ByPsname(call.name)
    /\ 2 \in ByPsname(call.name)
    /\ Styles[2].psname # call.name
    /\ result.value = Some(TRUE)
    /\ \A t \in DOMAIN Styles[2].axis_values \cap Declared :
            font.axis_map[t] = Styles[2].axis_values[t]
    /\ \E t \in DOMAIN Styles[1].axis_values \cap Declared :
            t \notin DOMAIN font.axis_map \/ font.axis_map[t] # Styles[1].axis_values[t]

----------------------------------------------------------------------------
(* Claims about get_font_from_spec *)

Inherits == call.spec.system = auto /\ (call.bold \/ call.italic)
\* the family the claim says is searched
Searched ==
    IF Inherits THEN TheOne(call.resolved_medium_font).family ELSE call.spec.system
\* that search, the resolved medium font being the excluded face
Search ==
    find_best_match(fontMapCache, wrCache, Searched, call.bold, call.italic, TRUE,
                    call.resolved_medium_font, FALSE)

\* C12: get_font_from_spec raises NotImplementedError, with no catalog
\* looked up, for a spec whose system keyword is empty; for a system
\* keyword it searches the resolved medium font's family when the keyword
\* is 'auto' and bold or italic is asked, the keyword itself otherwise
\* ('auto' for the medium role too), the resolved medium font excluded
C12_AutoInheritsMediumFamily ==
    IsCall("get_font_from_spec") =>
        IF call.spec.system = <<>>
        THEN /\ result.raised = "NotImplementedError"
             /\ result.value = None
             /\ DOMAIN fontMapCache = {} /\ DOMAIN wrCache = {}
        ELSE (Inherits /\ call.resolved_medium_font = None)
             \/ (/\ result.raised = Search.raised
                 /\ result.value = Search.value
                 /\ logged = Search.log
                 /\ TRUE \in DOMAIN fontMapCache)

\* C12 witness: 'auto' asked for bold with a resolved medium font of a
\* family that has another face, and that other face is returned
C12_Witness ==
    /\ IsCall("get_font_from_spec")
    /\ call.spec.system = auto
    /\ call.bold
    /\ call.resolved_medium_font # None
    /\ result.raised = ""
    /\ logged = 0
    /\ TheOne(result.value).family = TheOne(call.resolved_medium_font).family
    /\ result.value # call.resolved_medium_font

----------------------------------------------------------------------------
(* Claims about the cache of all_fonts_map *)

\* C13: after any sequence of all_fonts_map requests at most two catalogs
\* are cached, one per filter value; the host has been asked to enumerate
\* at most once per filter value, exactly once for a cached one; a request
\* returns the cached catalog, and a cached catalog is never replaced, so
\* it is the one the first request for that filter value built
C13_BuiltOncePerFilter ==
    /\ [](/\ DOMAIN fontMapCache \subseteq BOOLEAN
          /\ Cardinality(DOMAIN fontMapCache) <= 2
          /\ \A m \in BOOLEAN :
                enumerated[m] = (IF m \in DOMAIN fontMapCache THEN 1 ELSE 0)
          /\ IsCall("all_fonts_map") =>
                result.value = Some(fontMapCache[call.monospaced]))
    /\ [][\A m \in DOMAIN fontMapCache :
            m \in DOMAIN fontMapCache' /\ fontMapCache'[m] = fontMapCache[m]]_vars

\* C13 witness: both catalogs are cached and a request got the catalog
\* built first, which is no longer what the host's fonts would give
C13_Witness ==
    /\ IsCall("all_fonts_map")
    /\ DOMAIN fontMapCache = BOOLEAN
    /\ enumerated[call.monospaced] = 1
    /\ result.value = Some(fontMapCache[call.monospaced])
    /\ fontMapCache[call.monospaced] # create_font_map(coretext_all_fonts(call.monospaced))

====
